---- MODULE Spec2Model ----
(***************************************************************************)
(* A model of the MatrixCanvas rendering engine (src/components/           *)
(* MatrixCanvas.tsx): the requestAnimationFrame loop, its throttle, the    *)
(* per-tick sample -> classify -> batch -> render pass, the capture effect *)
(* and the React effects that start and stop the loop; and of the parts of *)
(* App (src/App.tsx) that drive it: capture and analysis, the toggles, and *)
(* the camera handling (initialisation, stream start, switch, reconnect).  *)
(*                                                                         *)
(* Conventions.                                                            *)
(*  - Time is counted in thirds of a millisecond, so that 1000/30 ms (100) *)
(*    and 1000/24 ms (125) are whole numbers; the code's floating-point    *)
(*    timestamps are modelled as exact rationals.                          *)
(*  - Lengths that may be fractional (a bounding rect, devicePixelRatio,   *)
(*    displayWidth * dpr) are counted in halves: dpr 1.5 is 3, a width of  *)
(*    24.5 px is 49.                                                       *)
(*  - A prop change is one step: React re-renders the component, runs the  *)
(*    clean-up of every effect whose dependencies changed and then the     *)
(*    effects themselves.  A frame callback is one step: JavaScript runs   *)
(*    it to completion.                                                    *)
(*  - log lists the calls and ref assignments of the latest handler, in    *)
(*    order; answers is what the browser answered that handler.            *)
(***************************************************************************)
EXTENDS Integers, Sequences, FiniteSets, TLC

VARIABLES
  mounted,          \* the component instance exists (videoRef/canvasRef set)
  props,            \* the props of the latest render
  processFrame,     \* the current useCallback closure: the values it captured
  rafQueue,         \* the browser's pending animation-frame callbacks
  animationRef,     \* animationRef.current
  lastDrawTimeRef,  \* lastDrawTimeRef.current
  canvas,           \* the output canvas: backing size, context state, content
  smallCanvasRef,   \* smallCanvasRef.current: NoCanvas or its size
  now,              \* the timestamp of the latest frame callback
  targetFps,        \* TARGET_FPS of the build
  log,              \* the calls the latest handler made
  answers,          \* what the browser answered the latest frame callback
  captures,         \* the data URLs handed to onFrameCapture so far
  stats,            \* history: executed ticks of the current run
  pixel,            \* an RGB triple read back from the intermediate buffer
  bucket,           \* the batch that triple was put into
  app               \* the state of App: what decides the props it passes,
                    \* its camera handling and the calls it has in flight

vars == <<mounted, props, processFrame, rafQueue, animationRef, lastDrawTimeRef,
          canvas, smallCanvasRef, now, targetFps, log, answers, captures, stats,
          pixel, bucket, app>>

(***************************************************************************)
(* Constants of the program                                                *)
(***************************************************************************)
TARGET_FPS == 30

TARGET_FPS_V1 == 24

\* 1000 / TARGET_FPS milliseconds, in thirds of a millisecond
FRAME_INTERVAL(fps) == 3000 \div fps

BUCKETS ==
  [GLOW   |-> [color |-> "#EEFFEE", alpha |-> 100, threshold |-> 240, glow |-> 15],
   BRIGHT |-> [color |-> "#00FF41", alpha |-> 95,  threshold |-> 160, glow |-> 0],
   MID    |-> [color |-> "#00D200", alpha |-> 75,  threshold |-> 90,  glow |-> 0],
   LOW    |-> [color |-> "#007500", alpha |-> 40,  threshold |-> 40,  glow |-> 0],
   DIM    |-> [color |-> "#003300", alpha |-> 15,  threshold |-> 10,  glow |-> 0]]

Tiers == {"DIM", "LOW", "MID", "BRIGHT", "GLOW"}

\* chars.length: the glyphs a cell's character is drawn from
CharsLength == 53

\* a new <canvas> element is 300 x 150
DefaultCanvasWidth == 300

DefaultCanvasHeight == 150

NoCanvas == [width |-> -1, height |-> -1]

HAVE_ENOUGH_DATA == 4

(***************************************************************************)
(* Classification (processFrame, the body of the cell loop)                *)
(***************************************************************************)
\* a luma whose green term is subtracted
Luma1000SignSlip(r, g, b) == 299 * r - 587 * g + 114 * b

\* 1000 * luma, luma = 0.299 r + 0.587 g + 0.114 b
Luma1000(r, g, b) == 299 * r + 587 * g + 114 * b

\* n * n as <<millions, rest>>: the square of 255000 does not fit 32 bits
Square(n) ==
  LET q == n \div 1000
      s == n % 1000
      mid == 2000 * q * s + s * s
  IN  <<q * q + mid \div 1000000, mid % 1000000>>

\* t * 212500000 as <<millions, rest>>
Scaled(t) == <<t * 212 + (t * 500000) \div 1000000, (t * 500000) % 1000000>>

PairLess(a, b) == a[1] < b[1] \/ (a[1] = b[1] /\ a[2] < b[2])

\* contrast = (luma / 255)^2 * 255 * 1.2 compared with a threshold t:
\* contrast < t  iff  (1000 luma)^2 < t * 212500000
ContrastBelow(l1000, t) == PairLess(Square(l1000), Scaled(t))

ContrastAbove(l1000, t) == PairLess(Scaled(t), Square(l1000))

\* a classifier that defaults the darkest cells to DIM
BucketOfNeverDropped(r, g, b) ==
  LET l == Luma1000(r, g, b) IN
  IF ContrastAbove(l, BUCKETS.GLOW.threshold) THEN "GLOW"
  ELSE IF ContrastAbove(l, BUCKETS.BRIGHT.threshold) THEN "BRIGHT"
  ELSE IF ContrastAbove(l, BUCKETS.MID.threshold) THEN "MID"
  ELSE IF ContrastAbove(l, BUCKETS.LOW.threshold) THEN "LOW"
  ELSE "DIM"

\* a classifier that compares luma itself, unsquared, with the thresholds
BucketOfLuma(r, g, b) ==
  LET l == Luma1000(r, g, b) IN
  IF l < 1000 * BUCKETS.DIM.threshold THEN "NONE"
  ELSE IF l > 1000 * BUCKETS.GLOW.threshold THEN "GLOW"
  ELSE IF l > 1000 * BUCKETS.BRIGHT.threshold THEN "BRIGHT"
  ELSE IF l > 1000 * BUCKETS.MID.threshold THEN "MID"
  ELSE IF l > 1000 * BUCKETS.LOW.threshold THEN "LOW"
  ELSE "DIM"

\* the batch a cell with sample (r, g, b) is pushed to; "NONE" when skipped
BucketOf(r, g, b) ==
  LET l == Luma1000(r, g, b) IN
  IF ContrastBelow(l, BUCKETS.DIM.threshold) THEN "NONE"
  ELSE IF ContrastAbove(l, BUCKETS.GLOW.threshold) THEN "GLOW"
  ELSE IF ContrastAbove(l, BUCKETS.BRIGHT.threshold) THEN "BRIGHT"
  ELSE IF ContrastAbove(l, BUCKETS.MID.threshold) THEN "MID"
  ELSE IF ContrastAbove(l, BUCKETS.LOW.threshold) THEN "LOW"
  ELSE "DIM"

(***************************************************************************)
(* The video frame, as the intermediate buffer returns it                  *)
(***************************************************************************)
Gray(v) == <<v, v, v>>

RampLevels == <<30, 60, 100, 150, 200, 240>>

\* the RGB sample of cell (x, y) of frame f after the draw into the buffer
FramePixel(f, x, y) ==
  CASE f = 0 -> Gray(5)
    [] f = 1 -> Gray(128)
    [] f = 2 -> Gray(RampLevels[((x + 2 * y) % 6) + 1])
    [] OTHER -> <<0, 255, 0>>

\* chars[Math.floor(Math.random() * chars.length)]: the draw of cell (x, y)
\* under the random stream named by seed
CharAt(seed, x, y) == (seed + 7 * x + 13 * y) % CharsLength

(***************************************************************************)
(* The output canvas and its 2D context                                    *)
(***************************************************************************)
Op(name) ==
  [op |-> name, x |-> 0, y |-> 0, ch |-> 0, font |-> 0, fill |-> "",
   alpha |-> 0, blur |-> 0]

\* a canvas whose width or height has just been assigned: the bitmap is
\* cleared and the context state is reset
ResetCanvas(w, h) ==
  [width |-> w, height |-> h, scales |-> <<>>, fillStyle |-> "#000000",
   globalAlpha |-> 100, shadowBlur |-> 0, glyphs |-> {}]

FreshCanvas == ResetCanvas(DefaultCanvasWidth, DefaultCanvasHeight)

RECURSIVE ScaleNum(_)
\* the context's scale is ScaleNum / ScaleDen, factors counted in halves
ScaleNum(scales) ==
  IF scales = <<>> THEN 1 ELSE Head(scales) * ScaleNum(Tail(scales))

RECURSIVE ScaleDen(_)
ScaleDen(scales) == IF scales = <<>> THEN 1 ELSE 2 * ScaleDen(Tail(scales))

\* fillRect(0, 0, w, h) reaches every pixel of the backing store
Covers(c, w, h) ==
  /\ w * ScaleNum(c.scales) >= c.width * ScaleDen(c.scales)
  /\ h * ScaleNum(c.scales) >= c.height * ScaleDen(c.scales)

\* ctx.fillStyle = '#000000'; ctx.fillRect(0, 0, displayWidth, displayHeight).
\* The glyphs on the bitmap were drawn under the transform the context has
\* now (an assignment of width or height, the only thing that precedes a
\* change of the transform, empties the bitmap), so the rectangle and the
\* glyph cells compare in the same units.  An opaque fill erases the glyphs
\* whose cell lies inside the rectangle.
ClearCanvas(c, w, h) ==
  [c EXCEPT !.fillStyle = "#000000",
            !.glyphs = IF c.globalAlpha = 100 /\ c.shadowBlur = 0
                       THEN {g \in c.glyphs :
                               ~(g.x + g.font <= w /\ g.y + g.font <= h)}
                       ELSE c.glyphs]

\* window.devicePixelRatio || 1, capped at 2, in halves
Dpr(devicePixelRatio2) ==
  LET d == IF devicePixelRatio2 = 0 THEN 2 ELSE devicePixelRatio2
  IN  IF d < 4 THEN d ELSE 4

\* canvas.width = v: the attribute takes the integer part (v in halves)
ToLength(v2) == v2 \div 2

(***************************************************************************)
(* Batching and drawing                                                    *)
(***************************************************************************)
\* the cells in the order of the two loops: y outer, x inner
CellSeq(cols, rows) ==
  [i \in 1..(cols * rows) |-> <<(i - 1) % cols, (i - 1) \div cols>>]

CellBucket(f, c) ==
  LET p == FramePixel(f, c[1], c[2]) IN BucketOf(p[1], p[2], p[3])

\* a drawX that ignores isMirrored
DrawXUnmirrored(x, cols, fontSize, isMirrored) == x * fontSize

\* a mirrored drawX that counts the columns from cols instead of cols - 1
DrawXOffByOne(x, cols, fontSize, isMirrored) ==
  IF isMirrored THEN (cols - x) * fontSize ELSE x * fontSize

\* drawX of a cell in column x
DrawX(x, cols, fontSize, isMirrored) ==
  IF isMirrored THEN (cols - 1 - x) * fontSize ELSE x * fontSize

\* batches[tier] after the cell loop; font is the ctx.font (line 97) its
\* glyphs are drawn with
Batch(tier, cb, cols, rows, f, seed) ==
  LET InTier(c) == CellBucket(f, c) = tier
      cells == SelectSeq(CellSeq(cols, rows), InTier)
  IN  [i \in 1..Len(cells) |->
         [x |-> DrawX(cells[i][1], cols, cb.density, cb.isMirrored),
          y |-> cells[i][2] * cb.density,
          ch |-> CharAt(seed, cells[i][1], cells[i][2]),
          font |-> cb.density]]

\* the blocks in the opposite order, brightest first
TierOrderBrightFirst == <<"GLOW", "BRIGHT", "MID", "LOW", "DIM">>

\* the order of the five blocks of lines 131-158
TierOrder == <<"DIM", "LOW", "MID", "BRIGHT", "GLOW">>

\* one "if (batches.T.length) { ... }" block: the fillText calls it makes
\* when the context's shadowBlur is blur before it
BatchOps(tier, batch, blur) ==
  [i \in 1..Len(batch) |->
     [op |-> "fillText", x |-> batch[i].x, y |-> batch[i].y, ch |-> batch[i].ch,
      font |-> batch[i].font, fill |-> BUCKETS[tier].color, alpha |-> BUCKETS[tier].alpha,
      blur |-> IF tier = "GLOW" THEN BUCKETS.GLOW.glow ELSE blur]]

\* a GLOW block without the closing "ctx.shadowBlur = 0"
BlurAfterLeftOn(tier, batch, blur) ==
  IF tier = "GLOW" /\ batch # <<>> THEN BUCKETS.GLOW.glow ELSE blur

\* shadowBlur after the block: only the GLOW block assigns it, ending with 0
BlurAfter(tier, batch, blur) ==
  IF tier = "GLOW" /\ batch # <<>> THEN 0 ELSE blur

RECURSIVE DrawBatches(_, _, _, _, _, _, _)
\* the five blocks from block i on: the calls made and the shadowBlur left
DrawBatches(i, blur, cb, cols, rows, f, seed) ==
  IF i > Len(TierOrder) THEN [ops |-> <<>>, blur |-> blur]
  ELSE LET batch == Batch(TierOrder[i], cb, cols, rows, f, seed)
           rest == DrawBatches(i + 1, BlurAfter(TierOrder[i], batch, blur),
                               cb, cols, rows, f, seed)
       IN  [ops |-> BatchOps(TierOrder[i], batch, blur) \o rest.ops,
            blur |-> rest.blur]

GlyphOf(o) ==
  [x |-> o.x, y |-> o.y, ch |-> o.ch, font |-> o.font, fill |-> o.fill,
   alpha |-> o.alpha, blur |-> o.blur]

\* the canvas after the clear and the five blocks; the function ends with
\* ctx.globalAlpha = 1.0
Painted(c, w, h, drawn) ==
  LET cleared == ClearCanvas(c, w, h)
      ops == drawn.ops
  IN  [cleared EXCEPT
         !.glyphs = cleared.glyphs \cup {GlyphOf(ops[i]) : i \in 1..Len(ops)},
         !.fillStyle = IF ops = <<>> THEN "#000000" ELSE ops[Len(ops)].fill,
         !.globalAlpha = 100,
         !.shadowBlur = drawn.blur]

(***************************************************************************)
(* processFrame                                                            *)
(***************************************************************************)
\* What one call of the closure cb with this timestamp does, given what the
\* browser answers (input): the refs and canvases it leaves, the calls it
\* made, whether it asked for the next frame and whether it threw.
Outcome(last, cv, small, ops, again, threw) ==
  [lastDrawTime |-> last, canvas |-> cv, smallCanvas |-> small, log |-> ops,
   rescheduled |-> again, threw |-> threw]

\* a test that finds the intermediate canvas misfit in every tick
AlwaysMisfit(small, cols, rows) == TRUE

\* a test that never finds it misfit
NeverMisfit(small, cols, rows) == FALSE

\* line 80: smallCanvas.width !== cols || smallCanvas.height !== rows
Misfit(small, cols, rows) == small.width # cols \/ small.height # rows

\* lines 72-73: Math.floor(displayWidth / fontSize)
GridSize(length, fontSize) == length \div fontSize

\* lines 57-159: the body of "if (video.readyState === video.HAVE_ENOUGH_DATA)"
RenderPass(cb, last, input) ==
  LET dpr == Dpr(input.devicePixelRatio)
      displayWidth == input.rectWidth \div 2
      displayHeight == input.rectHeight \div 2
      resize == \/ canvas.width * 2 # displayWidth * dpr
                \/ canvas.height * 2 # displayHeight * dpr
      cv1 == IF resize
             THEN [ResetCanvas(ToLength(displayWidth * dpr),
                               ToLength(displayHeight * dpr))
                     EXCEPT !.scales = <<dpr>>]
             ELSE canvas
      ops1 == IF resize
              THEN <<Op("canvas.width"), Op("canvas.height"), Op("ctx.scale")>>
              ELSE <<>>
      fontSize == cb.density
      cols == GridSize(displayWidth, fontSize)
      rows == GridSize(displayHeight, fontSize)
      created == smallCanvasRef = NoCanvas
      small0 == IF created
                THEN [width |-> DefaultCanvasWidth, height |-> DefaultCanvasHeight]
                ELSE smallCanvasRef
      fit == Misfit(small0, cols, rows)
      small1 == IF fit THEN [width |-> cols, height |-> rows] ELSE small0
      ops2 == ops1
              \o (IF created THEN <<Op("createElement")>> ELSE <<>>)
              \o (IF fit THEN <<Op("smallCanvas.width"), Op("smallCanvas.height")>>
                  ELSE <<>>)
  IN  IF ~input.smallCtx
      THEN Outcome(last, cv1, small1, ops2, FALSE, FALSE)
      ELSE IF cols = 0 \/ rows = 0
      THEN \* getImageData(0, 0, 0, rows) throws IndexSizeError
           Outcome(last, cv1, small1,
                   ops2 \o <<Op("drawImage"), Op("getImageData"), Op("throw")>>,
                   FALSE, TRUE)
      ELSE LET drawn == DrawBatches(1, cv1.shadowBlur, cb, cols, rows,
                                    input.frame, input.seed)
           IN  Outcome(last, Painted(cv1, displayWidth, displayHeight, drawn),
                       small1,
                       ops2 \o <<Op("drawImage"), Op("getImageData"),
                                 [Op("fillRect") EXCEPT
                                    !.fill = "#000000",
                                    !.alpha = cv1.globalAlpha,
                                    !.blur = cv1.shadowBlur]>>
                            \o drawn.ops \o <<Op("requestAnimationFrame")>>,
                       TRUE, FALSE)

\* lastDrawTimeRef.current = timestamp: the remainder is dropped
RawTimestamp(timestamp, elapsed, interval) == timestamp

\* line 51: lastDrawTimeRef.current = timestamp - (elapsed % FRAME_INTERVAL)
DriftCorrected(timestamp, elapsed, interval) ==
  timestamp - (elapsed % interval)

\* the throttle lets every callback through
NeverThrottled(elapsed, interval) == FALSE

\* line 46: if (elapsed < FRAME_INTERVAL)
Throttled(elapsed, interval) == elapsed < interval

\* lines 40-162
Tick(cb, timestamp, input) ==
  LET elapsed == timestamp - lastDrawTimeRef
      interval == FRAME_INTERVAL(targetFps)
      last == DriftCorrected(timestamp, elapsed, interval)
      r == RenderPass(cb, last, input)
  IN  IF ~mounted \/ ~cb.isActive
      THEN Outcome(lastDrawTimeRef, canvas, smallCanvasRef, <<>>, FALSE, FALSE)
      ELSE IF Throttled(elapsed, interval)
      THEN Outcome(lastDrawTimeRef, canvas, smallCanvasRef,
                   <<Op("requestAnimationFrame")>>, TRUE, FALSE)
      ELSE IF ~input.ctx
      THEN Outcome(last, canvas, smallCanvasRef, <<Op("lastDrawTimeRef")>>,
                   FALSE, FALSE)
      ELSE IF input.readyState # HAVE_ENOUGH_DATA
      THEN Outcome(last, canvas, smallCanvasRef,
                   <<Op("lastDrawTimeRef"), Op("requestAnimationFrame")>>,
                   TRUE, FALSE)
      ELSE [r EXCEPT !.log = <<Op("lastDrawTimeRef")>> \o r.log]

\* What the browser answers one callback: what getContext returns for the
\* two canvases, video.readyState, the bounding rect, devicePixelRatio, the
\* frame of the video and the random stream.
Input(ctx, readyState, smallCtx, rect, ratio, frame, seed) ==
  [ctx |-> ctx, smallCtx |-> smallCtx, readyState |-> readyState,
   rectWidth |-> rect[1], rectHeight |-> rect[2], devicePixelRatio |-> ratio,
   frame |-> frame, seed |-> seed]

NoAnswers == Input(FALSE, 0, FALSE, <<0, 0>>, 0, 0, 0)

(***************************************************************************)
(* The browser's animation-frame queue                                     *)
(***************************************************************************)
\* requestAnimationFrame returns a handle that names no pending callback.
\* The code only ever passes handles back to cancelAnimationFrame, so the
\* model hands out the least handle nothing refers to any more.
FreshHandle(queue, ref) ==
  LET used == {e.id : e \in queue} \cup {ref}
  IN  CHOOSE h \in 1..(Cardinality(used) + 1) :
        h \notin used /\ \A k \in 1..(h - 1) : k \in used

\* a cancelAnimationFrame that removes nothing
CancelNothing(queue, id) == queue

\* cancelAnimationFrame(id)
Cancel(queue, id) == {e \in queue : e.id # id}

\* a clean-up that cancels nothing
LoopCleanupOmitted(queue, ref) == queue

\* the effect clean-up: if (animationRef.current) cancelAnimationFrame(...)
LoopCleanup(queue, ref) == IF ref # 0 THEN Cancel(queue, ref) ELSE queue

\* canvas.toDataURL('image/jpeg', 0.9): the encoding of the bitmap
\* a variant that encodes an empty bitmap of the surface's size
ToDataURLBlank(c) ==
  [type |-> "image/jpeg", quality |-> 90, width |-> c.width,
   height |-> c.height, glyphs |-> {}]

ToDataURL(c) ==
  [type |-> "image/jpeg", quality |-> 90, width |-> c.width,
   height |-> c.height, glyphs |-> c.glyphs]

\* useCallback(..., [isActive, density, chars, FRAME_INTERVAL, isMirrored]):
\* the closure is a new one exactly when a captured prop differs
Closure(p) ==
  [isActive |-> p.isActive, density |-> p.density, isMirrored |-> p.isMirrored]

\* a variant whose encoder stamps every image with a serial number
CaptureEffectStamped(p, cv, got) ==
  IF p.captureTrigger > 0 /\ p.onFrameCapture # 0
  THEN Append(got, [trigger |-> p.captureTrigger,
                    url |-> [ToDataURL(cv) EXCEPT !.quality = Len(got)],
                    at |-> lastDrawTimeRef])
  ELSE got

\* the capture effect's body; each delivery is recorded with the image and
\* (history) the lastDrawTimeRef of the moment, i.e. the latest executed tick
CaptureEffect(p, cv, got) ==
  IF p.captureTrigger > 0 /\ p.onFrameCapture # 0
  THEN Append(got, [trigger |-> p.captureTrigger, url |-> ToDataURL(cv),
                    at |-> lastDrawTimeRef])
  ELSE got

(***************************************************************************)
(* Reading the log                                                         *)
(***************************************************************************)
HasOp(ops, name) == \E i \in 1..Len(ops) : ops[i].op = name

\* the handler resized, wrote or read the intermediate buffer
TouchesBuffer(ops) ==
  \E i \in 1..Len(ops) :
    ops[i].op \in {"createElement", "smallCanvas.width", "smallCanvas.height",
                   "drawImage", "getImageData"}

\* the handler resized, cleared or drew on the output surface
TouchesSurface(ops) ==
  \E i \in 1..Len(ops) :
    ops[i].op \in {"canvas.width", "canvas.height", "ctx.scale", "fillRect",
                   "fillText"}

\* the fillText calls of the handler, in order
FillTexts(ops) ==
  LET IsText(o) == o.op = "fillText" IN SelectSeq(ops, IsText)

\* the step is a frame callback
IsCallback == now' > now

\* the latest handler was a frame callback that passed the throttle
Executed == HasOp(log, "lastDrawTimeRef")

Stopped == ~mounted \/ ~props.isActive

(***************************************************************************)
(* Steps of the component                                                  *)
(***************************************************************************)
\* the browser runs the pending callback e with this timestamp
FrameCallback(e, timestamp, input) ==
  /\ e \in rafQueue
  /\ timestamp > now
  /\ LET r == Tick(e.cb, timestamp, input)
         rest == rafQueue \ {e}
         id == FreshHandle(rest, animationRef)
     IN  /\ lastDrawTimeRef' = r.lastDrawTime
         /\ canvas' = r.canvas
         /\ smallCanvasRef' = r.smallCanvas
         /\ log' = r.log
         /\ answers' = input
         /\ rafQueue' = IF r.rescheduled
                        THEN rest \cup {[id |-> id, cb |-> e.cb]} ELSE rest
         /\ animationRef' = IF r.rescheduled THEN id ELSE animationRef
  /\ now' = timestamp
  /\ UNCHANGED <<mounted, props, processFrame, targetFps, captures>>

\* the effects of a render with props p whose dependencies changed
RunEffects(p, captureDeps, loopDeps) ==
  LET cleaned == IF loopDeps THEN LoopCleanup(rafQueue, animationRef)
                 ELSE rafQueue
      id == FreshHandle(cleaned, animationRef)
      start == loopDeps /\ p.isActive
  IN  /\ captures' = IF captureDeps THEN CaptureEffect(p, canvas, captures)
                     ELSE captures
      /\ rafQueue' = IF start
                     THEN cleaned \cup {[id |-> id, cb |-> Closure(p)]}
                     ELSE cleaned
      /\ animationRef' = IF start THEN id ELSE animationRef
      /\ answers' = NoAnswers
      /\ log' = (IF captureDeps /\ captures' # captures
                 THEN <<Op("toDataURL"), Op("onFrameCapture")>> ELSE <<>>)
                \o (IF loopDeps /\ animationRef # 0
                    THEN <<Op("cancelAnimationFrame")>> ELSE <<>>)
                \o (IF start THEN <<Op("requestAnimationFrame")>> ELSE <<>>)

\* the parent renders the component again, passing props p
Render(p) ==
  /\ mounted
  /\ props' = p
  /\ processFrame' = Closure(p)
  /\ RunEffects(p,
                \/ p.captureTrigger # props.captureTrigger
                \/ p.onFrameCapture # props.onFrameCapture,
                \/ p.isActive # props.isActive
                \/ Closure(p) # processFrame)
  /\ UNCHANGED <<mounted, lastDrawTimeRef, canvas, smallCanvasRef, now,
                 targetFps>>

\* the parent mounts a new instance with props p: fresh refs, a new canvas,
\* every effect runs
Mount(p) ==
  /\ ~mounted
  /\ mounted' = TRUE
  /\ props' = p
  /\ processFrame' = Closure(p)
  /\ RunEffects(p, TRUE, TRUE)
  /\ UNCHANGED <<lastDrawTimeRef, canvas, smallCanvasRef, now, targetFps>>

\* the parent removes the instance: the loop effect's clean-up runs and the
\* refs and canvases go with the instance
Unmount ==
  /\ mounted
  /\ mounted' = FALSE
  /\ rafQueue' = LoopCleanup(rafQueue, animationRef)
  /\ log' = IF animationRef # 0 THEN <<Op("cancelAnimationFrame")>> ELSE <<>>
  /\ answers' = NoAnswers
  /\ animationRef' = 0
  /\ lastDrawTimeRef' = 0
  /\ canvas' = FreshCanvas
  /\ smallCanvasRef' = NoCanvas
  /\ UNCHANGED <<props, processFrame, now, targetFps, captures>>

(***************************************************************************)
(* The engine under any parent                                             *)
(***************************************************************************)
\* the latest timestamp the runs reach, in thirds of a millisecond
MaxTime == 200

\* the timestamps of two callbacks differ by one of these
Gaps == {50, 130}

Densities == {8, 12, 16}

PropsOf(triggers, callbacks) ==
  [isActive : BOOLEAN, density : Densities, isMirrored : BOOLEAN,
   captureTrigger : triggers, onFrameCapture : callbacks]

\* bounding rects (in halves): 0 x 0, 24.5 x 16.5 and 10 x 32
Rects == {<<0, 0>>, <<49, 33>>, <<20, 64>>}

\* What the browser may answer a callback.  An answer the code does not ask
\* for on a path (the rect when the video is not ready) is given one value.
InputsOf(rects, ratios, frames, seeds) ==
  {Input(FALSE, 2, FALSE, <<0, 0>>, 2, 0, 0),
   Input(FALSE, HAVE_ENOUGH_DATA, FALSE, <<0, 0>>, 2, 0, 0),
   Input(TRUE, 2, FALSE, <<0, 0>>, 2, 0, 0)}
  \cup {Input(TRUE, HAVE_ENOUGH_DATA, FALSE, r, d, 0, 0) :
          r \in rects, d \in ratios}
  \cup {Input(TRUE, HAVE_ENOUGH_DATA, TRUE, r, d, f, s) :
          r \in rects, d \in ratios, f \in frames, s \in seeds}

InitProps ==
  [isActive |-> FALSE, density |-> 12, isMirrored |-> FALSE,
   captureTrigger |-> 0, onFrameCapture |-> 1]

\* history: the display and the cell size of the latest executed tick
NoShown == [displayWidth |-> 0, displayHeight |-> 0, dpr |-> 0, fontSize |-> 0]

NoStats ==
  [executed |-> 0, first |-> 0, previous |-> 0, latest |-> 0,
   shown |-> NoShown]

InitInstance ==
  /\ mounted = FALSE
  /\ props = InitProps
  /\ processFrame = Closure(InitProps)
  /\ rafQueue = {}
  /\ animationRef = 0
  /\ lastDrawTimeRef = 0
  /\ canvas = FreshCanvas
  /\ smallCanvasRef = NoCanvas
  /\ log = <<>>
  /\ answers = NoAnswers
  /\ captures = <<>>

\* App.tsx lines 9-21: the initial useState values
\* and the first initializeCamera in flight; said is (history) the lines the
\* latest handler appended to terminalLogs
\* devices is the state of that name; held is the stream in state (0: null),
\* acquired the streams startStream was given so far, requests its
\* getUserMedia calls in flight, calls the number of startStream calls
NoApp ==
  [stream |-> FALSE, appState |-> "IDLE", aiConnected |-> FALSE,
   analysing |-> 0, cameraStatus |-> "PENDING", currentDeviceId |-> "",
   initialising |-> TRUE, starting |-> FALSE, said |-> <<>>,
   devices |-> <<>>, held |-> 0, acquired |-> {}, requests |-> {},
   calls |-> 0]

NoPixel ==
  /\ pixel = <<0, 0, 0>>
  /\ bucket = "UNSET"
  /\ app = NoApp

Init ==
  /\ InitInstance
  /\ NoPixel
  /\ stats = NoStats
  /\ now = 0
  /\ targetFps = TARGET_FPS

\* the variables the engine's steps leave alone
Aside == <<stats, pixel, bucket, app>>

ParentMounts == (\E p \in PropsOf({0}, {1}) : Mount(p)) /\ UNCHANGED Aside

ParentRenders == (\E p \in PropsOf({0}, {1}) : Render(p)) /\ UNCHANGED Aside

ParentUnmounts == Unmount /\ UNCHANGED Aside

BrowserRunsCallback ==
  /\ \E e \in rafQueue, gap \in Gaps,
        input \in InputsOf(Rects, {2, 3}, {2}, {0}) :
       /\ now + gap <= MaxTime
       /\ FrameCallback(e, now + gap, input)
  /\ UNCHANGED Aside

Next == ParentMounts \/ ParentRenders \/ ParentUnmounts \/ BrowserRunsCallback

Spec == Init /\ [][Next]_vars

(***************************************************************************)
(* The throttle under arbitrary timestamps                                 *)
(***************************************************************************)
\* the state a mount with props p (isActive among them) leaves at time t
Started(p, t, fps) ==
  /\ mounted = TRUE
  /\ props = p
  /\ processFrame = Closure(p)
  /\ rafQueue = {[id |-> 1, cb |-> Closure(p)]}
  /\ animationRef = 1
  /\ lastDrawTimeRef = 0
  /\ canvas = FreshCanvas
  /\ smallCanvasRef = NoCanvas
  /\ log = <<Op("requestAnimationFrame")>>
  /\ answers = NoAnswers
  /\ captures = <<>>
  /\ NoPixel
  /\ stats = [NoStats EXCEPT !.first = t]
  /\ now = t
  /\ targetFps = fps

\* the state a mount with isActive leaves at time t under TARGET_FPS fps
Running(t, fps) == Started([InitProps EXCEPT !.isActive = TRUE], t, fps)

\* history: the ticks that passed the throttle
Counted ==
  stats' = IF HasOp(log', "lastDrawTimeRef")
           THEN [stats EXCEPT !.executed = @ + 1, !.previous = stats.latest,
                              !.latest = now']
           ELSE stats

\* the latest timestamp of the clock runs
MaxClock == 450

ClockGaps == {35, 135, 260}

ClockStarts == {7, 1000}

InitClock ==
  \E t \in ClockStarts, fps \in {TARGET_FPS, TARGET_FPS_V1} : Running(t, fps)

ClockCallback ==
  /\ \E e \in rafQueue, gap \in ClockGaps,
        input \in InputsOf({<<33, 33>>}, {2}, {1}, {0}) :
       /\ now + gap <= stats.first + MaxClock
       /\ FrameCallback(e, now + gap, input)
  /\ Counted
  /\ UNCHANGED <<pixel, bucket, app>>

\* the parent pauses or resumes the engine
ClockToggle ==
  /\ Render([props EXCEPT !.isActive = ~props.isActive])
  /\ UNCHANGED Aside

NextClock == ClockCallback \/ ClockToggle

SpecClock == InitClock /\ [][NextClock]_vars

(***************************************************************************)
(* The throttle under callbacks 4 ms apart at 24 frames a second           *)
(***************************************************************************)
\* the run starts at 0, 7, ..., 7 * MaxStart thirds of a millisecond
MaxStart == 17

\* 4 ms and 10 s, in thirds of a millisecond
Spacing == 4 * 3

RunLength == 10 * 1000 * 3

InitFps == \E k \in 0..MaxStart : Running(7 * k, TARGET_FPS_V1)

FpsCallback ==
  /\ \E e \in rafQueue :
       /\ now + Spacing <= stats.first + RunLength
       /\ FrameCallback(e, now + Spacing,
                        Input(TRUE, HAVE_ENOUGH_DATA, TRUE, <<33, 33>>, 2, 1, 0))
  /\ Counted
  /\ UNCHANGED <<pixel, bucket, app>>

SpecFps == InitFps /\ [][FpsCallback]_vars

(***************************************************************************)
(* The classifier over RGB samples                                         *)
(***************************************************************************)
\* each channel takes this many values, spread evenly over 0..255
ChannelLevels == 24

Channels ==
  {(255 * i) \div (ChannelLevels - 1) : i \in 0..(ChannelLevels - 1)}

InitPixel ==
  /\ InitInstance
  /\ stats = NoStats
  /\ now = 0
  /\ targetFps = TARGET_FPS
  /\ app = NoApp
  /\ pixel \in Channels \X Channels \X Channels
  /\ bucket = "UNSET"

\* one pass of the cell loop's body over the sample
ClassifyPixel ==
  /\ bucket = "UNSET"
  /\ bucket' = BucketOf(pixel[1], pixel[2], pixel[3])
  /\ UNCHANGED <<mounted, props, processFrame, rafQueue, animationRef,
                 lastDrawTimeRef, canvas, smallCanvasRef, now, targetFps, log,
                 answers, captures, stats, pixel, app>>

SpecPixel == InitPixel /\ [][ClassifyPixel]_vars

(***************************************************************************)
(* The engine under App                                                    *)
(***************************************************************************)
\* handleCapture is offered until captureTrigger reaches MaxTrigger
MaxTrigger == 2

\* App stops re-rendering once this many captures were delivered
MaxCaptures == 4

\* the latest timestamp the runs under App reach
MaxAppTime == 260

\* the state after App's first commit: MatrixCanvas is mounted, not yet
\* active, and the self-check effect has stored checkAIConnection()
InitApp ==
  /\ mounted = TRUE
  /\ props = InitProps
  /\ processFrame = Closure(InitProps)
  /\ rafQueue = {}
  /\ animationRef = 0
  /\ lastDrawTimeRef = 0
  /\ canvas = FreshCanvas
  /\ smallCanvasRef = NoCanvas
  /\ log = <<>>
  /\ answers = NoAnswers
  /\ captures = <<>>
  /\ stats = NoStats
  /\ now = 0
  /\ targetFps = TARGET_FPS
  /\ pixel = <<0, 0, 0>>
  /\ bucket = "UNSET"
  /\ app \in {[NoApp EXCEPT !.aiConnected = b] : b \in BOOLEAN}

\* the props of App's next render: onFrameCaptured is a function made anew
\* by every render, so it never equals the one of the render before
AppProps(a, trigger, density, isMirrored) ==
  [isActive |-> a.appState \in {"STREAMING", "ANALYZING"},
   density |-> density, isMirrored |-> isMirrored,
   captureTrigger |-> trigger, onFrameCapture |-> 3 - props.onFrameCapture]

\* App's state becomes a and App renders MatrixCanvas with props p; every
\* onFrameCapture call of the capture effect starts one decodeMatrixImage
AppRenders(a, p) ==
  /\ Len(captures) < MaxCaptures
  /\ Render(p)
  /\ app' = [a EXCEPT !.analysing = @ + Len(captures') - Len(captures)]
  /\ UNCHANGED <<stats, pixel, bucket>>

\* startStream: getUserMedia resolved
StreamStarts ==
  /\ ~app.stream
  /\ AppRenders([app EXCEPT !.stream = TRUE, !.appState = "STREAMING",
                            !.cameraStatus = "ACTIVE",
                            !.currentDeviceId = "camera",
                            !.initialising = FALSE],
                AppProps([appState |-> "STREAMING"], props.captureTrigger,
                         props.density, props.isMirrored))

\* a click on the capture button while it is enabled
HandleCapture ==
  /\ app.appState \notin {"ANALYZING", "ERROR"}
  /\ app.aiConnected
  /\ props.captureTrigger < MaxTrigger
  /\ AppRenders([app EXCEPT !.appState = "ANALYZING"],
                AppProps([appState |-> "ANALYZING"], props.captureTrigger + 1,
                         props.density, props.isMirrored))

\* decodeMatrixImage settled: onFrameCaptured appends to the terminal log
\* and sets appState to STREAMING
OnFrameCaptured ==
  /\ app.analysing > 0
  /\ AppRenders([app EXCEPT !.analysing = @ - 1, !.appState = "STREAMING"],
                AppProps([appState |-> "STREAMING"], props.captureTrigger,
                         props.density, props.isMirrored))

\* an update that forgets the coarse grid
NextDensityTwoWay(prev) == IF prev = 12 THEN 8 ELSE 12

\* the update function of setDensity (line 214)
NextDensity(prev) == IF prev = 12 THEN 8 ELSE IF prev = 8 THEN 16 ELSE 12

ToggleDensity ==
  LET density == NextDensity(props.density)
  IN  AppRenders(app, AppProps(app, props.captureTrigger, density,
                               props.isMirrored))

ToggleMirror ==
  LET isMirrored == ~props.isMirrored
  IN  AppRenders(app, AppProps(app, props.captureTrigger, props.density,
                               isMirrored))

AppFrame ==
  /\ \E e \in rafQueue :
       /\ now + 130 <= MaxAppTime
       /\ FrameCallback(e, now + 130,
                        Input(TRUE, HAVE_ENOUGH_DATA, TRUE, <<49, 33>>, 2, 2, 0))
  /\ UNCHANGED Aside

NextApp ==
  \/ StreamStarts \/ HandleCapture \/ OnFrameCaptured
  \/ ToggleDensity \/ ToggleMirror \/ AppFrame

SpecApp == InitApp /\ [][NextApp]_vars

(***************************************************************************)
(* App with a camera that may fail and an analysis that settles            *)
(***************************************************************************)
\* what generateContent may do: answer with text, answer without, reject
Services == {"text", "empty", "rejects"}

\* decodeMatrixImage: the string its promise resolves with
DecodeMatrixImage(apiKey, service) ==
  IF ~apiKey THEN "CONFIG_MISSING"
  ELSE CASE service = "text" -> "response.text"
         [] service = "empty" -> "Connection interrupted. No data received."
         [] service = "rejects" -> "Error decoding stream. The signal is too weak."

\* the lines onFrameCaptured appends for a result
Reported(result) ==
  IF result = "CONFIG_MISSING" THEN <<">> ERROR: API KEY NOT CONFIGURED.">>
  ELSE <<">> ANALYSIS COMPLETE:", result>>

\* App renders MatrixCanvas unless it renders the error screen
CanvasShown(a) ==
  a.appState # "ERROR" /\ a.cameraStatus \notin {"ERROR", "DENIED"}

\* App's state becomes a and App commits: MatrixCanvas is rendered with
\* props p, mounted or removed as the error screen goes or comes; while the
\* error screen shows, props only keeps what App would pass
AppCommits(a, p) ==
  /\ CASE mounted /\ CanvasShown(a) -> Render(p)
       [] mounted /\ ~CanvasShown(a) -> Unmount
       [] ~mounted /\ CanvasShown(a) -> Mount(p)
       [] ~mounted /\ ~CanvasShown(a) ->
            /\ props' = p
            /\ UNCHANGED <<mounted, processFrame, rafQueue, animationRef,
                           lastDrawTimeRef, canvas, smallCanvasRef, now,
                           targetFps, log, answers, captures>>
  /\ app' = [a EXCEPT !.analysing = @ + Len(captures') - Len(captures)]
  /\ UNCHANGED <<stats, pixel, bucket>>

\* what App passes after its state became a, the toggles left alone
SameProps(a) ==
  AppProps(a, props.captureTrigger, props.density, props.isMirrored)

\* initializeCamera ends in its catch block or finds no device
InitializeCameraFails ==
  /\ app.initialising
  /\ Len(captures) < MaxCaptures
  /\ \E status \in {"ERROR", "DENIED"} :
       LET a == [app EXCEPT !.initialising = FALSE, !.appState = "ERROR",
                            !.cameraStatus = status,
                            !.said = <<"ERROR: Sensor access failed.">>]
       IN  AppCommits(a, SameProps(a))

\* initializeCamera finds the device: setCurrentDeviceId starts startStream
\* through the stream effect when the id differs from the one held
InitializeCameraSucceeds ==
  /\ app.initialising
  /\ Len(captures) < MaxCaptures
  /\ LET a == [app EXCEPT !.initialising = FALSE, !.cameraStatus = "ACTIVE",
                          !.currentDeviceId = "camera",
                          !.starting = @ \/ app.currentDeviceId # "camera",
                          !.said = <<"Visual sensors detected.">>]
     IN  AppCommits(a, SameProps(a))

\* startStream: one of its getUserMedia calls resolved
StartStreamSucceeds ==
  /\ app.starting
  /\ Len(captures) < MaxCaptures
  /\ LET a == [app EXCEPT !.starting = FALSE, !.stream = TRUE,
                          !.appState = "STREAMING", !.cameraStatus = "ACTIVE",
                          !.said = <<"Visual feed established.">>]
     IN  AppCommits(a, SameProps(a))

\* startStream: both getUserMedia calls rejected
StartStreamFails ==
  /\ app.starting
  /\ Len(captures) < MaxCaptures
  /\ LET a == [app EXCEPT !.starting = FALSE, !.appState = "ERROR",
                          !.cameraStatus = "ERROR",
                          !.said = <<"CRITICAL: Signal lost.">>]
     IN  AppCommits(a, SameProps(a))

\* a click on RECONNECT SENSORS on the error screen: initializeCamera again
RetryConnection ==
  /\ ~CanvasShown(app)
  /\ ~app.initialising
  /\ Len(captures) < MaxCaptures
  /\ LET a == [app EXCEPT !.initialising = TRUE, !.appState = "IDLE",
                          !.cameraStatus = "PENDING",
                          !.said = <<"Re-initializing sensor subsystem...">>]
     IN  AppCommits(a, SameProps(a))

\* a click on the capture button while it is enabled; the button is part of
\* the overlay, which App renders over the error screen as well
\* a handleCapture without the aiConnected test
HandleCaptureUnchecked(a, trigger) ==
  [app |-> [a EXCEPT !.appState = "ANALYZING",
                     !.said = <<"Capturing frame...",
                                "Uploading to Construct...">>],
   trigger |-> trigger + 1]

\* handleCapture: App's state and captureTrigger after the call
HandleCaptureSets(a, trigger) ==
  IF ~a.aiConnected
  THEN [app |-> [a EXCEPT !.said = <<"CMD ERROR: AI Config Missing.",
                                     "Please check API_KEY.">>],
        trigger |-> trigger]
  ELSE [app |-> [a EXCEPT !.appState = "ANALYZING",
                          !.said = <<"Capturing frame...",
                                     "Uploading to Construct...">>],
        trigger |-> trigger + 1]

ClickCapture ==
  /\ app.appState \notin {"ANALYZING", "ERROR"}
  /\ app.aiConnected
  /\ props.captureTrigger < MaxTrigger
  /\ Len(captures) < MaxCaptures
  /\ LET r == HandleCaptureSets(app, props.captureTrigger)
     IN  AppCommits(r.app, AppProps(r.app, r.trigger, props.density,
                                    props.isMirrored))

\* handleCapture is called although the AI service is not configured (the
\* button is disabled then, so the call comes from elsewhere)
HandleCaptureUnconfigured ==
  /\ ~app.aiConnected
  /\ props.captureTrigger < MaxTrigger
  /\ Len(captures) < MaxCaptures
  /\ LET r == HandleCaptureSets(app, props.captureTrigger)
     IN  AppCommits(r.app, AppProps(r.app, r.trigger, props.density,
                                    props.isMirrored))

\* one decodeMatrixImage settled and onFrameCaptured resumed: it appends the
\* result and, in its finally block, sets appState to STREAMING.  The runs
\* end with the first completion after MaxCaptures deliveries.
AnalysisSettles ==
  /\ app.analysing > 0
  /\ Len(captures) < MaxCaptures \/ app.appState # "STREAMING"
  /\ \E service \in Services :
       LET result == DecodeMatrixImage(app.aiConnected, service)
           a == [app EXCEPT !.analysing = @ - 1, !.appState = "STREAMING",
                            !.said = Reported(result)]
       IN  AppCommits(a, SameProps(a))

NextAppFair ==
  \/ InitializeCameraFails \/ InitializeCameraSucceeds
  \/ StartStreamSucceeds \/ StartStreamFails
  \/ RetryConnection \/ ClickCapture \/ HandleCaptureUnconfigured
  \/ AnalysisSettles

\* the service call settles and the continuation of onFrameCaptured runs
SpecAppFair ==
  InitApp /\ [][NextAppFair]_vars /\ WF_vars(AnalysisSettles)

(***************************************************************************)
(* App's camera handling: devices, switches and overlapping requests       *)
(***************************************************************************)
\* the runs make at most this many startStream calls
MaxCalls == 3

\* what enumerateDevices may report: one camera or two
DeviceLists == {<<"front">>, <<"front", "back">>}

\* stream.getTracks().forEach(track => track.stop()) for the stream id
StopTracks(acquired, id) ==
  {IF s.id = id THEN [s EXCEPT !.live = FALSE] ELSE s : s \in acquired}

\* the stream effect's startStream, up to its first await: it stops the
\* stream its render holds and asks getUserMedia for currentDeviceId
StartStream(a) ==
  [a EXCEPT !.acquired = StopTracks(@, a.held),
            !.calls = @ + 1,
            !.requests = @ \cup {[call |-> a.calls + 1,
                                  device |-> a.currentDeviceId,
                                  phase |-> "exact"]},
            !.starting = TRUE]

\* setCurrentDeviceId(id) and the commit: the stream effect depends on
\* currentDeviceId alone, so it runs only when the id is a new one
SetCurrentDeviceId(a, id) ==
  IF id = a.currentDeviceId THEN a
  ELSE StartStream([a EXCEPT !.currentDeviceId = id])

\* handleSwitchCamera's choice: the device after the current one
NextDevice(devices, id) ==
  LET found == {i \in 1..Len(devices) : devices[i] = id}
      currentIndex == IF found = {} THEN -1
                      ELSE (CHOOSE i \in found : \A j \in found : i <= j) - 1
  IN  devices[((currentIndex + 1) % Len(devices)) + 1]

\* initializeCamera found the devices: it selects the first one
CameraInitSucceeds ==
  /\ app.initialising
  /\ \E found \in DeviceLists :
       /\ found[1] = app.currentDeviceId \/ app.calls < MaxCalls
       /\ LET a == SetCurrentDeviceId(
                     [app EXCEPT !.initialising = FALSE,
                                 !.cameraStatus = "ACTIVE",
                                 !.devices = found,
                                 !.said = <<"Visual sensors detected.">>],
                     found[1])
          IN  AppCommits(a, SameProps(a))

\* a click on the camera button
HandleSwitchCamera ==
  /\ Len(app.devices) > 1
  /\ app.calls < MaxCalls
  /\ LET a == SetCurrentDeviceId(
                 [app EXCEPT !.said = <<"Switching to sensor...">>],
                 NextDevice(app.devices, app.currentDeviceId))
     IN  AppCommits(a, SameProps(a))

\* a getUserMedia call of startStream resolves with a new stream
GetUserMediaResolves ==
  \E r \in app.requests :
    LET id == Cardinality(app.acquired) + 1
        left == app.requests \ {r}
        a == [app EXCEPT !.requests = left,
                         !.starting = left # {},
                         !.acquired = @ \cup {[id |-> id, device |-> r.device,
                                               live |-> TRUE]},
                         !.held = id, !.stream = TRUE,
                         !.appState = "STREAMING",
                         !.cameraStatus = "ACTIVE",
                         !.said = IF r.phase = "exact"
                                  THEN <<"Visual feed established.">>
                                  ELSE <<>>]
    IN  AppCommits(a, SameProps(a))

\* a getUserMedia call of startStream rejects: the first one is followed by
\* the call with loose constraints, the second one by the error state
GetUserMediaRejects ==
  \E r \in app.requests :
    LET left == app.requests \ {r}
    IN  IF r.phase = "exact"
        THEN /\ app' = [app EXCEPT
                          !.requests = left \cup {[r EXCEPT !.phase = "loose"]}]
             /\ UNCHANGED <<mounted, props, processFrame, rafQueue,
                            animationRef, lastDrawTimeRef, canvas,
                            smallCanvasRef, now, targetFps, log, answers,
                            captures, stats, pixel, bucket>>
        ELSE LET a == [app EXCEPT !.requests = left,
                                  !.starting = left # {},
                                  !.appState = "ERROR",
                                  !.cameraStatus = "ERROR",
                                  !.said = <<"CRITICAL: Signal lost.">>]
             IN  AppCommits(a, SameProps(a))

NextCamera ==
  \/ CameraInitSucceeds \/ InitializeCameraFails \/ RetryConnection
  \/ HandleSwitchCamera \/ GetUserMediaResolves \/ GetUserMediaRejects

\* every getUserMedia call and every initializeCamera settles
SpecCamera ==
  /\ InitApp /\ [][NextCamera]_vars
  /\ WF_vars(GetUserMediaResolves \/ GetUserMediaRejects)
  /\ WF_vars(CameraInitSucceeds \/ InitializeCameraFails)

(***************************************************************************)
(* The rendering pass over whole frames on a 100 x 100 display             *)
(***************************************************************************)
\* the latest timestamp of these runs: two ticks, one frame interval apart
MaxSceneTime == 200

SceneDensities == {10, 16}

\* near black, mid gray, the ramp and plain green
SceneFrames == {0, 1, 2, 3}

InitScene ==
  \E d \in SceneDensities, m \in BOOLEAN :
    Started([InitProps EXCEPT !.isActive = TRUE, !.density = d,
                              !.isMirrored = m], 0, TARGET_FPS)

SceneCallback ==
  /\ \E e \in rafQueue, f \in SceneFrames :
       /\ now + FRAME_INTERVAL(targetFps) <= MaxSceneTime
       /\ FrameCallback(e, now + FRAME_INTERVAL(targetFps),
                        Input(TRUE, HAVE_ENOUGH_DATA, TRUE, <<200, 200>>,
                              2, f, 0))
  /\ UNCHANGED Aside

\* the parent changes the cell size or the mirroring
SceneRender ==
  /\ \E d \in SceneDensities, m \in BOOLEAN :
       Render([props EXCEPT !.density = d, !.isMirrored = m])
  /\ UNCHANGED Aside

NextScene == SceneCallback \/ SceneRender

SpecScene == InitScene /\ [][NextScene]_vars

(***************************************************************************)
(* The two canvases under display, pixel-ratio and cell-size changes       *)
(***************************************************************************)
\* the latest timestamp of these runs: three ticks, one interval apart
MaxSurfaceTime == 300

\* What getBoundingClientRect and devicePixelRatio answer together (in
\* halves): 48 x 32 at 1, the same window zoomed to 24 x 16 at 2 and at 3,
\* 25 x 17 at 1.5, 150 x 75 at 2 (the backing size a new canvas has) and
\* 10 x 32 at 1 (narrower than a cell).
Displays ==
  {<<96, 64, 2>>, <<48, 32, 4>>, <<48, 32, 6>>, <<50, 34, 3>>,
   <<300, 150, 4>>, <<20, 64, 2>>}

SurfaceDensities == {12, 16}

\* history: what the tick that just ran was given
Shown(cb, input) ==
  stats' = [stats EXCEPT
              !.executed = @ + 1, !.previous = stats.latest, !.latest = now',
              !.shown = [displayWidth |-> input.rectWidth \div 2,
                         displayHeight |-> input.rectHeight \div 2,
                         dpr |-> Dpr(input.devicePixelRatio),
                         fontSize |-> cb.density]]

InitSurface ==
  \E d \in SurfaceDensities :
    Started([InitProps EXCEPT !.isActive = TRUE, !.density = d], 0, TARGET_FPS)

SurfaceCallback ==
  /\ \E e \in rafQueue, display \in Displays, f \in {0, 2} :
       LET input == Input(TRUE, HAVE_ENOUGH_DATA, TRUE,
                          <<display[1], display[2]>>, display[3], f, 0)
       IN  /\ now + FRAME_INTERVAL(targetFps) <= MaxSurfaceTime
           /\ FrameCallback(e, now + FRAME_INTERVAL(targetFps), input)
           /\ Shown(e.cb, input)
  /\ UNCHANGED <<pixel, bucket, app>>

\* the parent sets the cell size, to another value or to the one it has
SurfaceRender ==
  /\ \E d \in SurfaceDensities : Render([props EXCEPT !.density = d])
  /\ UNCHANGED Aside

NextSurface == SurfaceCallback \/ SurfaceRender

SpecSurface == InitSurface /\ [][NextSurface]_vars

(***************************************************************************)
(* Claims about the loop                                                   *)
(***************************************************************************)
\* C1: once the engine is deactivated (isActive false) or the component is
\* torn down, no animation-frame callback is pending, and no step taken
\* while it is stopped samples, clears or draws.
C1_StoppedEngineIsSilent ==
  [][/\ Stopped' => rafQueue' = {}
     /\ Stopped => /\ ~IsCallback
                   /\ ~TouchesBuffer(log') /\ ~TouchesSurface(log')
                   /\ (mounted' = mounted => canvas' = canvas)]_vars

\* C1's case: a loop that has drawn glyphs is deactivated, and the clean-up
\* cancels its pending callback
C1_Witness ==
  /\ mounted /\ ~props.isActive
  /\ canvas.glyphs # {}
  /\ log = <<Op("cancelAnimationFrame")>>

\* C2: a callback that comes less than one frame interval after
\* lastDrawTime only asks for the next frame: no resize, no sampling, no
\* clear, no glyph, and lastDrawTime, the intermediate buffer and the output
\* surface stay as they were.
C2_ThrottledCallbackOnlyReschedules ==
  [][(IsCallback /\ now' - lastDrawTimeRef < FRAME_INTERVAL(targetFps))
       => /\ log' = <<Op("requestAnimationFrame")>>
          /\ Cardinality(rafQueue') = 1
          /\ UNCHANGED <<lastDrawTimeRef, canvas, smallCanvasRef>>]_vars

\* C2's case: after a tick that drew glyphs, a callback arrives too early
C2_Witness ==
  /\ answers # NoAnswers
  /\ ~Executed
  /\ log = <<Op("requestAnimationFrame")>>
  /\ lastDrawTimeRef > 0 /\ now - lastDrawTimeRef < FRAME_INTERVAL(targetFps)
  /\ canvas.glyphs # {}

\* C3: every tick that passes the throttle sets lastDrawTime to
\* timestamp - (elapsed mod interval); so under increasing timestamps
\* lastDrawTime never decreases, never exceeds the timestamp, moves by whole
\* multiples of the interval only, and stays less than one interval behind
\* the timestamp of the last executed tick.
C3_DriftCorrectedLastDrawTime ==
  [][IsCallback =>
       LET interval == FRAME_INTERVAL(targetFps) IN
       /\ lastDrawTimeRef' >= lastDrawTimeRef
       /\ lastDrawTimeRef' <= now'
       /\ (lastDrawTimeRef' - lastDrawTimeRef) % interval = 0
       /\ IF HasOp(log', "lastDrawTimeRef")
          THEN /\ lastDrawTimeRef'
                    = now' - ((now' - lastDrawTimeRef) % interval)
               /\ lastDrawTimeRef' > lastDrawTimeRef
          ELSE lastDrawTimeRef' = lastDrawTimeRef
       /\ stats'.executed > 0
            => /\ stats'.latest - lastDrawTimeRef' >= 0
               /\ stats'.latest - lastDrawTimeRef' < interval]_vars

\* C3's case: a second executed tick that came late, so that a remainder is
\* carried over
C3_Witness ==
  /\ Executed
  /\ stats.executed >= 2
  /\ lastDrawTimeRef >= 2 * FRAME_INTERVAL(targetFps)
  /\ now > lastDrawTimeRef

\* C4: with callbacks 4 ms apart and 24 frames a second, two executed ticks
\* never fall into the same window [k * interval, (k + 1) * interval) of the
\* 41.7 ms grid, and a run of 10 s executes within 2% of 240 ticks.
C4_ThrottledTo24Fps ==
  LET interval == FRAME_INTERVAL(targetFps) IN
  /\ stats.executed >= 2
       => stats.latest \div interval > stats.previous \div interval
  /\ stats.executed * interval <= now
  /\ now = stats.first + RunLength
       => /\ 100 * stats.executed >= 98 * 240
          /\ 100 * stats.executed <= 102 * 240

\* C4's case: the end of a 10 s run that executed 240 ticks
C4_Witness ==
  /\ now = stats.first + RunLength
  /\ stats.executed = 240
  /\ targetFps = TARGET_FPS_V1

\* C5: at most one animation-frame callback is pending, it is the one
\* animationRef names and it runs the current processFrame; a callback runs
\* to completion in one step, so the ticks follow one another.
C5_AtMostOnePendingCallback ==
  /\ Cardinality(rafQueue) <= 1
  /\ \A e \in rafQueue : e.id = animationRef /\ e.cb = processFrame

\* C5's case: a configuration change replaced processFrame while a callback
\* of a loop that has drawn was pending
C5_Witness ==
  /\ Cardinality(rafQueue) = 1
  /\ canvas.glyphs # {}
  /\ log = <<Op("cancelAnimationFrame"), Op("requestAnimationFrame")>>

\* C7: a callback that finds no 2D context for the output canvas, or for
\* the intermediate canvas, draws nothing and leaves a next callback
\* scheduled.
C7_MissingContextStillReschedules ==
  (/\ Executed
   /\ \/ ~answers.ctx
      \/ (answers.readyState = HAVE_ENOUGH_DATA /\ ~answers.smallCtx))
    => /\ ~HasOp(log, "fillRect") /\ ~HasOp(log, "fillText")
       /\ rafQueue # {}

\* C8: a callback that reaches the sampling of the frame, whatever the
\* display size, the cell size and the pixel ratio, does not throw and ends
\* by asking for the next frame.
C8_TickNeverRaises ==
  HasOp(log, "getImageData")
    => /\ ~HasOp(log, "throw")
       /\ log[Len(log)].op = "requestAnimationFrame"
       /\ rafQueue # {}

\* C9: a callback that passes the throttle while the video is not in the
\* HAVE_ENOUGH_DATA state touches neither the intermediate buffer nor the
\* output surface, raises nothing and leaves a next callback scheduled.
C9_NotReadyTickIsSkipped ==
  (Executed /\ answers.readyState # HAVE_ENOUGH_DATA)
    => /\ ~TouchesBuffer(log) /\ ~TouchesSurface(log)
       /\ ~HasOp(log, "throw")
       /\ rafQueue # {}

\* C6: every increment of captureTrigger causes exactly one capture: the
\* number of data URLs handed to onFrameCapture equals captureTrigger,
\* whatever App re-renders in between.
C6_OneCapturePerTrigger == Len(captures) = props.captureTrigger

\* C10: the batch a sample is put into is the one of the reference
\* classifier c = min(255, (L / 255)^2 * 255 * 1.2): none below 10, else
\* the highest of GLOW 240, BRIGHT 160, MID 90, LOW 40, DIM 10 that c
\* exceeds.
C10_Thresholds ==
  [GLOW |-> 240, BRIGHT |-> 160, MID |-> 90, LOW |-> 40, DIM |-> 10]

\* 212500000 c for the reference's c, as <<millions, rest>>
C10_Contrast(r, g, b) ==
  LET c == Square(Luma1000(r, g, b))
  IN  IF PairLess(Scaled(255), c) THEN Scaled(255) ELSE c

C10_Reference(r, g, b) ==
  LET c == C10_Contrast(r, g, b)
      exceeded == {t \in DOMAIN C10_Thresholds :
                     PairLess(Scaled(C10_Thresholds[t]), c)}
  IN  IF PairLess(c, Scaled(10)) THEN "NONE"
      ELSE IF exceeded = {} THEN "UNDEFINED"
      ELSE CHOOSE t \in exceeded :
             \A u \in exceeded : C10_Thresholds[u] <= C10_Thresholds[t]

C10_BatchEqualsReference ==
  bucket # "UNSET" => bucket = C10_Reference(pixel[1], pixel[2], pixel[3])

\* C10's case: a sample whose contrast the reference clamps to 255
C10_Witness ==
  /\ bucket = "GLOW"
  /\ PairLess(Scaled(255), Square(Luma1000(pixel[1], pixel[2], pixel[3])))

(***************************************************************************)
(* Claims about classification, batching and drawing                       *)
(***************************************************************************)
\* the grid of the latest tick
TickCols == GridSize(answers.rectWidth \div 2, processFrame.density)

TickRows == GridSize(answers.rectHeight \div 2, processFrame.density)

TickCells == (0..(TickCols - 1)) \X (0..(TickRows - 1))

\* the boosted contrast of cell c in the latest tick is at least 10
TickVisible(c) ==
  LET p == FramePixel(answers.frame, c[1], c[2])
  IN  ~PairLess(C10_Contrast(p[1], p[2], p[3]), Scaled(10))

\* the fillText calls of the latest tick at the place of cell c
TickTextsAt(c) ==
  LET texts == FillTexts(log)
      d == processFrame.density
      column == IF processFrame.isMirrored THEN TickCols - 1 - c[1] ELSE c[1]
  IN  {i \in 1..Len(texts) :
         texts[i].x = column * d /\ texts[i].y = c[2] * d}

\* C11: in a tick that renders, a cell whose boosted contrast is below 10
\* gets no glyph, every other cell gets exactly one glyph, and the glyphs
\* drawn are as many as the cells with contrast at least 10.
C11_OneGlyphPerVisibleCell ==
  HasOp(log, "fillRect") =>
    /\ \A c \in TickCells :
         Cardinality(TickTextsAt(c)) = IF TickVisible(c) THEN 1 ELSE 0
    /\ Len(FillTexts(log)) = Cardinality({c \in TickCells : TickVisible(c)})

\* C11's case: a tick over the ramp, where some cells are dropped and the
\* others drawn
C11_Witness ==
  /\ HasOp(log, "fillRect")
  /\ answers.frame = 2
  /\ \E c \in TickCells : ~TickVisible(c)
  /\ Len(FillTexts(log)) > 0

C12_Rank(t) ==
  CASE t = "NONE" -> 0 [] t = "DIM" -> 1 [] t = "LOW" -> 2 [] t = "MID" -> 3
    [] t = "BRIGHT" -> 4 [] t = "GLOW" -> 5

C12_Raised(c, v) == [pixel EXCEPT ![c] = v]

\* C12: raising one channel of a sample, the other two fixed, never moves
\* it to a lower tier (dropped < DIM < LOW < MID < BRIGHT < GLOW).
C12_ClassificationIsMonotonic ==
  bucket # "UNSET" =>
    \A c \in 1..3, v \in Channels :
      v >= pixel[c] =>
        LET q == C12_Raised(c, v)
        IN  C12_Rank(BucketOf(q[1], q[2], q[3])) >= C12_Rank(bucket)

\* C12's case: a sample in LOW that a higher green moves up to BRIGHT
C12_Witness ==
  /\ bucket = "LOW"
  /\ \E v \in Channels :
       /\ v > pixel[2]
       /\ LET q == C12_Raised(2, v) IN BucketOf(q[1], q[2], q[3]) = "BRIGHT"

\* the latest tick drew the 10 x 10 grid of a mid-gray frame
C13_MidGrayTick ==
  /\ HasOp(log, "fillRect")
  /\ answers.frame = 1
  /\ processFrame.density = 10
  /\ TickCols = 10 /\ TickRows = 10

C13_AllStyled(tier) ==
  LET texts == FillTexts(log) IN
  /\ Len(texts) = 100
  /\ \A i \in 1..Len(texts) :
       /\ texts[i].fill = BUCKETS[tier].color
       /\ texts[i].alpha = BUCKETS[tier].alpha
       /\ texts[i].blur = 0

\* C13 as stated: a solid frame of gray 128 on a 10 x 10 grid with cell
\* size 10 draws 100 glyphs, all in MID's colour and opacity, none glowing.
C13_MidGrayIsMid == C13_MidGrayTick => C13_AllStyled("MID")

\* C13 amended: that frame draws 100 glyphs, all in LOW's colour and
\* opacity, none glowing (the boosted contrast of gray 128 is 77.1).
C13_MidGrayIsLow == C13_MidGrayTick => C13_AllStyled("LOW")

\* C13's case: the tick of the mid-gray frame
C13_Witness == C13_MidGrayTick /\ Len(FillTexts(log)) = 100

C15_Places(ops) ==
  {<<ops[i].x, ops[i].y, ops[i].fill, ops[i].alpha>> : i \in 1..Len(ops)}

C15_Reflected(places) ==
  {<<(TickCols - 1) * processFrame.density - p[1], p[2], p[3], p[4]>> :
     p \in places}

\* C15: a render puts the glyph of cell (x, y) at column cols - 1 - x when
\* mirrored and at column x otherwise, row y either way, and the render of
\* the same frame with the other mirroring (and any glyph choice) is its
\* reflection, place for place and tier for tier.
C15_MirrorIsReflection ==
  HasOp(log, "fillRect") =>
    LET texts == FillTexts(log)
        other == DrawBatches(1, 0,
                             [processFrame EXCEPT !.isMirrored = ~@],
                             TickCols, TickRows, answers.frame,
                             answers.seed + 1).ops
    IN  /\ \A c \in TickCells :
             CellBucket(answers.frame, c) # "NONE" =>
               \E i \in TickTextsAt(c) :
                 texts[i].fill = BUCKETS[CellBucket(answers.frame, c)].color
        /\ C15_Places(texts) = C15_Reflected(C15_Places(other))

\* C15's case: a mirrored tick over the ramp, which is not symmetric
C15_Witness ==
  /\ HasOp(log, "fillRect")
  /\ processFrame.isMirrored
  /\ answers.frame = 2
  /\ C15_Places(FillTexts(log)) # C15_Reflected(C15_Places(FillTexts(log)))

(***************************************************************************)
(* Claims about the two canvases                                           *)
(***************************************************************************)
\* the place of the first call named name in ops, 0 when there is none
FirstOp(ops, name) ==
  IF HasOp(ops, name)
  THEN CHOOSE i \in 1..Len(ops) :
         ops[i].op = name /\ \A k \in 1..(i - 1) : ops[k].op # name
  ELSE 0

\* C16: a tick that renders fills the display area with black at full
\* opacity and without shadow blur before it draws any glyph, and when it
\* is over the surface shows the glyphs of this tick and none of an earlier
\* tick.
C16_FullRepaint ==
  [][(IsCallback /\ HasOp(log', "fillRect")) =>
       /\ \A i \in 1..Len(log') :
            log'[i].op = "fillText" => FirstOp(log', "fillRect") < i
       /\ HasOp(log', "canvas.width")
            \/ (canvas.globalAlpha = 100 /\ canvas.shadowBlur = 0)
       /\ canvas'.glyphs
            = {GlyphOf(FillTexts(log')[i]) : i \in 1..Len(FillTexts(log'))}]_vars

\* C17: in a tick that renders, the backing size of the output canvas is
\* the display size times min(devicePixelRatio, 2) (its integer part) and
\* the scale of the context is min(devicePixelRatio, 2), set once.
C17_BackingSizeAndScale ==
  HasOp(log, "fillRect") =>
    /\ canvas.width = (stats.shown.displayWidth * stats.shown.dpr) \div 2
    /\ canvas.height = (stats.shown.displayHeight * stats.shown.dpr) \div 2
    /\ Len(canvas.scales) <= 1
    /\ 2 * ScaleNum(canvas.scales) = stats.shown.dpr * ScaleDen(canvas.scales)

\* the grid of a tick over the display of answers a with the closure cb
C18_Grid(a, cb) ==
  [width |-> (a.rectWidth \div 2) \div cb.density,
   height |-> (a.rectHeight \div 2) \div cb.density]

\* C18: the intermediate canvas is created once, and a tick reassigns its
\* width and height only when the grid of the tick differs from its size;
\* a tick with the display size and the cell size of the tick before
\* reassigns nothing.
C18_BufferResizedOnlyOnChange ==
  [][IsCallback =>
       /\ HasOp(log', "createElement") => smallCanvasRef = NoCanvas
       /\ HasOp(log', "smallCanvas.width")
            => \/ smallCanvasRef = NoCanvas
               \/ smallCanvasRef # C18_Grid(answers', processFrame)
       /\ (/\ stats.executed > 0
           /\ stats.shown.displayWidth = answers'.rectWidth \div 2
           /\ stats.shown.displayHeight = answers'.rectHeight \div 2
           /\ stats.shown.fontSize = processFrame.density)
            => /\ ~HasOp(log', "createElement")
               /\ ~HasOp(log', "smallCanvas.width")
               /\ ~HasOp(log', "smallCanvas.height")
               /\ smallCanvasRef' = smallCanvasRef]_vars

\* C18's case: a second tick over a 48 x 32 display with cell size 12 finds
\* the intermediate canvas 4 x 2 already and leaves it alone
C18_Witness ==
  /\ stats.executed = 2
  /\ HasOp(log, "getImageData")
  /\ ~HasOp(log, "smallCanvas.width")
  /\ smallCanvasRef = [width |-> 4, height |-> 2]

\* C19: a tick given the display size and the pixel ratio of the tick
\* before does not assign canvas.width or canvas.height.
C19_SurfaceResizedOnlyOnChange ==
  [][(/\ IsCallback
      /\ stats.executed > 0
      /\ stats.shown.displayWidth = answers'.rectWidth \div 2
      /\ stats.shown.displayHeight = answers'.rectHeight \div 2
      /\ stats.shown.dpr = Dpr(answers'.devicePixelRatio))
       => /\ ~HasOp(log', "canvas.width")
          /\ ~HasOp(log', "canvas.height")]_vars

\* C20: when a tick draws the video into the intermediate canvas and reads
\* it back, that canvas has floor(displayWidth / cellSize) columns and
\* floor(displayHeight / cellSize) rows, and any resize of it in the tick
\* came before the draw.
C20_BufferMatchesGrid ==
  HasOp(log, "getImageData") =>
    /\ smallCanvasRef = C18_Grid(answers, processFrame)
    /\ FirstOp(log, "drawImage") < FirstOp(log, "getImageData")
    /\ \A i \in 1..Len(log) :
         log[i].op \in {"createElement", "smallCanvas.width",
                        "smallCanvas.height"}
           => i < FirstOp(log, "drawImage")

\* C20's case: the third tick finds a grid other than the one before,
\* resizes the intermediate canvas and then reads it
C20_Witness ==
  /\ stats.executed = 3
  /\ HasOp(log, "smallCanvas.width") /\ ~HasOp(log, "createElement")
  /\ HasOp(log, "getImageData") /\ HasOp(log, "fillRect")
  /\ smallCanvasRef = C18_Grid(answers, processFrame)

(***************************************************************************)
(* The capture path                                                        *)
(***************************************************************************)
\* the step delivered a capture
C21_Capturing == Len(captures') > Len(captures)

\* the JPEG encoding of a surface, written out independently
C21_Encoded(c) ==
  [type |-> "image/jpeg", quality |-> 90, width |-> c.width,
   height |-> c.height, glyphs |-> c.glyphs]

\* C21: a capture is a pure read.  A step that delivers a capture makes no
\* drawing or sampling call, leaves the output surface, the intermediate
\* buffer and lastDrawTimeRef as they were, leaves the pending callback and
\* its handle as they were unless the same render also changed isActive or
\* the processFrame closure, and delivers the encoding of the surface as it
\* stands; the surface itself is changed by frame callbacks only, so what
\* stands there is what the latest callback left.
C21_CaptureIsPureRead ==
  [][/\ C21_Capturing =>
          /\ ~IsCallback
          /\ canvas' = canvas
          /\ smallCanvasRef' = smallCanvasRef
          /\ lastDrawTimeRef' = lastDrawTimeRef
          /\ ~TouchesSurface(log') /\ ~TouchesBuffer(log')
          /\ ~HasOp(log', "lastDrawTimeRef")
          /\ (props'.isActive = props.isActive /\ processFrame' = processFrame
                => rafQueue' = rafQueue /\ animationRef' = animationRef)
          /\ Len(captures') = Len(captures) + 1
          /\ captures'[Len(captures')].url = C21_Encoded(canvas)
     /\ canvas' # canvas => IsCallback]_vars

\* a capture of a surface that holds glyphs was delivered while a callback
\* was pending
C21_Witness ==
  /\ HasOp(log, "toDataURL")
  /\ captures # <<>>
  /\ captures[Len(captures)].url.glyphs # {}
  /\ rafQueue # {}
  /\ lastDrawTimeRef > 0

C23_Current ==
  [isActive |-> props.isActive, density |-> props.density,
   isMirrored |-> props.isMirrored]

\* C23: every frame callback works with the cell size and the mirror flag of
\* the latest render: its calls are the calls of a tick made with the current
\* props, every pending callback holds the current configuration, and the
\* callback's step leaves the props and the closure as they are (they are
\* not replaced in the middle of a tick).
C23_TicksUseCurrentConfiguration ==
  [][IsCallback =>
       /\ \A e \in rafQueue : e.cb = C23_Current
       /\ log' = Tick(C23_Current, now', answers').log
       /\ \A i \in 1..Len(log') :
            log'[i].op = "fillText" => log'[i].font = props.density
       /\ props' = props /\ processFrame' = processFrame]_vars

\* after both toggles were used, the second tick of the run drew mirrored
\* glyphs of the new cell size
C23_Witness ==
  /\ Executed
  /\ now = 2 * 130
  /\ props.isMirrored /\ props.density = 8
  /\ FillTexts(log) # <<>>
  /\ FillTexts(log)[1].font = 8

\* C24: while the engine is mounted and active the loop goes on: every frame
\* callback that runs leaves a next callback scheduled.
C24_CallbackLeavesSuccessor ==
  [][IsCallback /\ mounted /\ props.isActive => rafQueue' # {}]_vars

(***************************************************************************)
(* Draw order and styles                                                   *)
(***************************************************************************)
\* the tier of the cell a fillText call of the latest tick was placed for,
\* classified by the reference
C25_TierOf(o) ==
  LET d == processFrame.density
      column == IF processFrame.isMirrored THEN TickCols - 1 - (o.x \div d)
                ELSE o.x \div d
      p == FramePixel(answers.frame, column, o.y \div d)
  IN  C10_Reference(p[1], p[2], p[3])

\* the fill colours and opacities (in percent) of lines 13-19
C25_Styles ==
  [DIM |-> <<"#003300", 15>>, LOW |-> <<"#007500", 40>>,
   MID |-> <<"#00D200", 75>>, BRIGHT |-> <<"#00FF41", 95>>,
   GLOW |-> <<"#EEFFEE", 100>>]

\* C25: in a tick that renders, the glyphs are drawn tier after tier in the
\* order DIM, LOW, MID, BRIGHT, GLOW (no glyph is drawn after a glyph of a
\* brighter tier), each with the fill colour and the opacity of its own
\* tier, and the style changes only where the tier changes: once per
\* non-empty tier, whichever tiers are empty.
C25_BackToFrontOwnStyle ==
  HasOp(log, "fillRect") =>
    LET texts == FillTexts(log)
        changes == {i \in 1..(Len(texts) - 1) :
                      <<texts[i].fill, texts[i].alpha>>
                        # <<texts[i + 1].fill, texts[i + 1].alpha>>}
        tiers == {C25_TierOf(texts[i]) : i \in 1..Len(texts)}
    IN  /\ \A i \in 1..Len(texts) :
             /\ C25_TierOf(texts[i]) \in DOMAIN C25_Styles
             /\ <<texts[i].fill, texts[i].alpha>>
                  = C25_Styles[C25_TierOf(texts[i])]
        /\ \A i, j \in 1..Len(texts) :
             i < j => C12_Rank(C25_TierOf(texts[i]))
                        <= C12_Rank(C25_TierOf(texts[j]))
        /\ texts # <<>> => Cardinality(changes) = Cardinality(tiers) - 1

\* a tick over the ramp drew glyphs of at least four tiers, GLOW among them
C25_Witness ==
  /\ HasOp(log, "fillRect")
  /\ answers.frame = 2
  /\ Cardinality({C25_TierOf(FillTexts(log)[i]) :
                    i \in 1..Len(FillTexts(log))}) >= 4
  /\ \E i \in 1..Len(FillTexts(log)) : FillTexts(log)[i].blur > 0

\* C26: shadowBlur is non-zero only while GLOW glyphs are drawn.  In every
\* state the context's shadowBlur is 0 (so it is 0 when a tick begins, when
\* it clears and when it ends); in a tick, every glyph of DIM, LOW, MID and
\* BRIGHT is drawn with blur 0 and every GLOW glyph with the glow radius.
C26_BlurOnlyOnGlow ==
  /\ canvas.shadowBlur = 0
  /\ \A i \in 1..Len(log) :
       /\ log[i].op = "fillRect" => log[i].blur = 0 /\ log[i].alpha = 100
       /\ log[i].op = "fillText" =>
            log[i].blur = IF C25_TierOf(log[i]) = "GLOW" THEN 15 ELSE 0

\* the second tick of a run drew glyphs with and without glow, after a
\* first tick that had drawn GLOW glyphs
C26_Witness ==
  /\ HasOp(log, "fillRect")
  /\ now = 2 * FRAME_INTERVAL(targetFps)
  /\ \E g \in canvas.glyphs : g.blur = 15
  /\ \E i \in 1..Len(log) : log[i].op = "fillText" /\ log[i].blur = 15
  /\ \E i \in 1..Len(log) : log[i].op = "fillText" /\ log[i].blur = 0

(***************************************************************************)
(* App's handlers                                                          *)
(***************************************************************************)
\* C27: App increments captureTrigger (and enters ANALYZING) only from
\* appState STREAMING.
C27_CaptureOnlyWhileStreaming ==
  [][props'.captureTrigger > props.captureTrigger
       => app.appState = "STREAMING" /\ app'.appState = "ANALYZING"]_vars

\* C28: the cell size App supplies is always one of 12, 8 and 16 (a positive
\* integer), it starts at 12, and every change of it is the next step of the
\* cycle 12 -> 8 -> 16 -> 12, so three toggles bring it back.
C28_DensityCycle ==
  /\ props.density = 12
  /\ [](props.density \in {12, 8, 16} /\ props.density > 0)
  /\ [][props.density' # props.density =>
          <<props.density, props.density'>>
            \in {<<12, 8>>, <<8, 16>>, <<16, 12>>}]_vars

\* the cell size is 16, which takes two toggles, and a tick rendered with
\* it: the 24.5 x 16.5 display is one cell of 16
C28_Witness ==
  /\ props.density = 16
  /\ HasOp(log, "fillRect")
  /\ smallCanvasRef = [width |-> 1, height |-> 1]

(***************************************************************************)
(* Glyph positions                                                         *)
(***************************************************************************)
\* C29: in a tick that renders, every glyph is drawn at (i * cellSize,
\* j * cellSize) with 0 <= i < cols and 0 <= j < rows, no two glyphs of the
\* tick share a position, and the column mapping is a bijection of the
\* columns, mirrored or not, that is its own inverse when mirrored.
C29_GlyphsOnDistinctGridPositions ==
  HasOp(log, "fillRect") =>
    LET texts == FillTexts(log)
        d == processFrame.density
        columns == 0..(TickCols - 1)
        Column(x, m) == DrawX(x, TickCols, 1, m)
    IN  /\ \A i \in 1..Len(texts) :
             /\ texts[i].x % d = 0 /\ texts[i].x \div d \in columns
             /\ texts[i].y % d = 0 /\ texts[i].y \div d \in 0..(TickRows - 1)
        /\ \A i, j \in 1..Len(texts) :
             i # j => <<texts[i].x, texts[i].y>> # <<texts[j].x, texts[j].y>>
        /\ \A m \in BOOLEAN :
             /\ {Column(x, m) : x \in columns} = columns
             /\ \A x, z \in columns : Column(x, m) = Column(z, m) => x = z
        /\ \A x \in columns : Column(Column(x, TRUE), TRUE) = x

\* a mirrored tick over plain green: every cell of the grid gets a glyph,
\* the first and the last column included
C29_Witness ==
  /\ HasOp(log, "fillRect")
  /\ processFrame.isMirrored
  /\ answers.frame = 3
  /\ TickCols > 1 /\ TickRows > 1
  /\ Len(FillTexts(log)) = TickCols * TickRows
  /\ \E i \in 1..Len(FillTexts(log)) : FillTexts(log)[i].x = 0
  /\ \E i \in 1..Len(FillTexts(log)) :
       FillTexts(log)[i].x = (TickCols - 1) * processFrame.density

\* C30: whenever appState is ANALYZING, appState STREAMING follows.
C30_AnalyzingLeadsToStreaming ==
  (app.appState = "ANALYZING") ~> (app.appState = "STREAMING")

(***************************************************************************)
(* The camera and the app state                                            *)
(***************************************************************************)
\* C31: appState ERROR is left only by a reconnect (retryConnection) or by a
\* successful stream start; no other step, the completion of an analysis
\* included, takes appState from ERROR to another value.
C31_ErrorLeftOnlyByReconnectOrStream ==
  [][app.appState = "ERROR" /\ app'.appState # "ERROR"
       => app'.said \in {<<"Re-initializing sensor subsystem...">>,
                         <<"Visual feed established.">>}]_vars

\* the lines handleCapture appends when the AI service is not configured
C34_Refusal == <<"CMD ERROR: AI Config Missing.", "Please check API_KEY.">>

\* C34: handleCapture with aiConnected false only appends its two log lines:
\* the step leaves captureTrigger, appState and every other part of App's
\* state as they were and no capture is delivered; so, while the service is
\* not configured, captureTrigger stays 0, no capture is ever taken and
\* appState is never ANALYZING.
C34_UnconfiguredCaptureOnlyLogs ==
  /\ [](~app.aiConnected =>
          /\ app.appState # "ANALYZING"
          /\ props.captureTrigger = 0
          /\ captures = <<>> /\ app.analysing = 0)
  /\ [][~app.aiConnected /\ app'.said = C34_Refusal =>
          /\ app' = [app EXCEPT !.said = C34_Refusal]
          /\ props'.captureTrigger = props.captureTrigger
          /\ captures' = captures]_vars

\* handleCapture was refused while the stream was live
C34_Witness ==
  /\ ~app.aiConnected
  /\ app.said = C34_Refusal
  /\ app.appState = "STREAMING"
  /\ mounted /\ props.isActive

\* the camera is at rest: no initializeCamera and no getUserMedia in flight
C32_Settled == app.requests = {} /\ ~app.initialising

\* C32: once every pending request has settled and the app is streaming,
\* the stream held in state is a live stream of currentDeviceId and every
\* other stream that was acquired has been stopped.
C32_OneLiveStreamOfCurrentDevice ==
  C32_Settled /\ app.appState = "STREAMING" =>
    /\ \E s \in app.acquired :
         s.id = app.held /\ s.device = app.currentDeviceId /\ s.live
    /\ \A s \in app.acquired : s.id # app.held => ~s.live

\* initializeCamera has succeeded and the app is still IDLE
C33_Initialised ==
  app.appState = "IDLE" /\ app.cameraStatus = "ACTIVE" /\ ~app.initialising

\* C33: once initializeCamera has succeeded, also after a retryConnection
\* that selects the device that was current before, the app goes on from
\* IDLE to STREAMING: as long as it is still IDLE, a getUserMedia call of
\* startStream is in flight.
C33_InitialisedHasStreamPending == C33_Initialised => app.requests # {}

\* the same as a leads-to, under the fairness of SpecCamera: STREAMING
\* follows, or ERROR when the stream start itself fails
C33_InitialisedLeadsOn ==
  C33_Initialised ~> (app.appState \in {"STREAMING", "ERROR"})

====
